---- MODULE Spec2Model ----
(***************************************************************************)
(* The two-point distance measurement of the 3D viewer, src/app.js.        *)
(*                                                                         *)
(* app.js holds successive versions of the viewer script.  Two of them     *)
(* measure:                                                                *)
(*   "pointer"  lines   1-246  onPointerDown / updateLine / clearMeasure   *)
(*   "canvas"   lines 423-829  onCanvasClick / addMeasurePoint /           *)
(*                             resetMeasureState                           *)
(* (lines 248-421 only display the model).  One version runs in a page;    *)
(* `variant` says which.  Every handler runs to completion before the next *)
(* event is delivered (single-threaded event loop), so one action is one   *)
(* whole handler.                                                          *)
(*                                                                         *)
(* Coordinates are integers in half metres, so that the grid plane of the  *)
(* pointer version (y = -0.5) is a lattice point.  A distance d is kept    *)
(* exactly, as the integer (2d)^2 = dx^2 + dy^2 + dz^2 in these units.     *)
(***************************************************************************)
EXTENDS Integers, Sequences, FiniteSets

\* ---------------------------------------------------------------- bounds
\* Surface points a ray can hit on the model: Point(0) .. Point(MaxPoint).
MaxPoint == 2
\* Measurement visuals (spheres, lines) that may exist at once.
MaxObjects == 4

\* ------------------------------------------------------------ the inputs
\* Point(0) = (0,0,0) m, Point(1) = (3,4,0) m, Point(2) = (6,0,1) m, ...
Point(i) == << 6 * i, 8 * (i % 2), 2 * (i \div 2) >>
ModelPoints == { Point(i) : i \in 0..MaxPoint }
\* The centre of the grid of the pointer version, (0, -0.5, 0) m.
GridPoint == << 0, -1, 0 >>

\* A pointer-down event is the ray it casts.  ray.model is the list of its
\* intersections with the model's meshes, nearest first (empty: it misses the
\* model); ray.aux says which auxiliary object it meets: the grid, a drawn
\* measurement visual, or none.
Rays == [ model : {<< >>} \cup { <<p>> : p \in ModelPoints },
          aux : {"none", "grid", "visual"} ]
NoRay == [ model |-> << >>, aux |-> "none" ]

\* ---------------------------------------------------------------- state
VARIABLES
  variant,         \* which version of the script runs: "pointer" or "canvas"
  loadState,       \* the OBJ/MTL load: "loading", "loaded" or "failed"
  modelRoot,       \* pointer: TRUE once modelRoot holds the loaded object
  loadedModel,     \* canvas: TRUE once loadedModel holds the loaded object
  sceneChildren,   \* the raycastable children of the scene
  isMeasuring,     \* measurement mode armed
  btnActive,       \* the armed look of the measure button (class / label)
  pickedPoints,    \* pointer: the picked points
  pickedLine,      \* pointer: << >> (null) or << the line object >>
  lastDistance,    \* pointer: the last distance (0, or the squared repr.)
  measurePoints,   \* canvas: the picked points of the running measurement
  measureObjects,  \* canvas: the visuals created so far, in order
  measureText,     \* the text of #measureText
  lastEvent,       \* history: the event the last handler served
  left,            \* history: a completed measurement left behind on disarm
  everArmed        \* history: measurement mode has been armed at least once

vars == << variant, loadState, modelRoot, loadedModel, sceneChildren,
           isMeasuring, btnActive, pickedPoints, pickedLine, lastDistance,
           measurePoints, measureObjects, measureText, lastEvent, left,
           everArmed >>

\* ------------------------------------------------------- scene objects
Obj(kind, id, pts) == [ kind |-> kind, id |-> id, pts |-> pts ]
Grid == Obj("grid", 0, << >>)
Model == Obj("model", 0, << >>)
IsVisual(o) == o.kind \in {"sphere", "line"}

\* The program's state as one record, so that a handler is a function.
State == [ modelRoot |-> modelRoot, loadedModel |-> loadedModel,
           sceneChildren |-> sceneChildren, isMeasuring |-> isMeasuring,
           btnActive |-> btnActive, pickedPoints |-> pickedPoints,
           pickedLine |-> pickedLine, lastDistance |-> lastDistance,
           measurePoints |-> measurePoints, measureObjects |-> measureObjects,
           measureText |-> measureText ]

\* A new object is a new identity: the least id no live object carries.
UsedIds(s) == { o.id : o \in s.sceneChildren }
              \cup { s.measureObjects[i].id : i \in 1..Len(s.measureObjects) }
              \cup { s.pickedLine[i].id : i \in 1..Len(s.pickedLine) }
FreshId(s) == CHOOSE i \in 1..(MaxObjects + 2) : i \notin UsedIds(s)

\* ------------------------------------------------------------- the text
\* "量測值：—"
Placeholder == [ dash |-> TRUE, digits |-> 0, scaled |-> 0 ]
\* "量測值：<scaled / 10^digits, with digits decimals> m"
DistanceText(digits, scaled) ==
  [ dash |-> FALSE, digits |-> digits, scaled |-> scaled ]

RECURSIVE SqrtSearch(_, _, _)
SqrtSearch(x, lo, hi) ==
  IF lo = hi THEN lo
  ELSE LET mid == (lo + hi + 1) \div 2
       IN  IF mid * mid <= x THEN SqrtSearch(x, mid, hi)
                             ELSE SqrtSearch(x, lo, mid - 1)
\* floor(sqrt(x)), 0 <= x < 2^31
FloorSqrt(x) == SqrtSearch(x, 0, 46340)

RECURSIVE Pow100(_)
Pow100(k) == IF k = 0 THEN 1 ELSE 100 * Pow100(k - 1)

\* three.js Vector3.distanceTo: sqrt(dx^2 + dy^2 + dz^2); kept as its square.
distanceToDropZ(p, q) ==
  (p[1] - q[1]) * (p[1] - q[1]) + (p[2] - q[2]) * (p[2] - q[2])
distanceTo(p, q) ==
  (p[1] - q[1]) * (p[1] - q[1]) + (p[2] - q[2]) * (p[2] - q[2])
  + (p[3] - q[3]) * (p[3] - q[3])

\* Number.prototype.toFixed: the integer n with n / 10^digits nearest to the
\* distance d in metres, the larger n on a tie.  With dSq = (2d)^2:
\* n = floor(d * 10^digits + 1/2) = floor((floor(sqrt(dSq * 100^digits)) + 1) / 2).
toFixed(dSq, digits) == (FloorSqrt(dSq * Pow100(digits)) + 1) \div 2

\* ----------------------------------------------------------- ray casting
\* Raycaster.intersectObject(s)(targets, true): the intersections of the ray
\* with the target objects, nearest first.  Lights have no geometry.  A grid or
\* a line is hit at a point of its own; a drawn visual at its first point.
VisualsIn(targets) == { o \in targets : IsVisual(o) }
intersectObjects(targets, ray) ==
  (IF Model \in targets THEN ray.model ELSE << >>)
  \o (IF ray.aux = "grid" /\ Grid \in targets THEN << GridPoint >>
      ELSE IF ray.aux = "visual" /\ VisualsIn(targets) # {}
           THEN << (CHOOSE o \in VisualsIn(targets) :
                      \A o2 \in VisualsIn(targets) : o.id <= o2.id).pts[1] >>
           ELSE << >>)

\* ------------------------------------------- the pointer version (1-246)
\* The line object of the scene, if pickedLine holds one, is removed.
RemoveLine(s) ==
  IF s.pickedLine # << >>
  THEN [ s EXCEPT !.sceneChildren = @ \ { s.pickedLine[1] },
                  !.pickedLine = << >> ]
  ELSE s

clearMeasureKeepLine(s) ==
  [ s EXCEPT !.pickedPoints = << >>, !.lastDistance = 0,
             !.measureText = Placeholder ]
clearMeasure(s) ==
  RemoveLine([ s EXCEPT !.pickedPoints = << >>, !.lastDistance = 0,
                        !.measureText = Placeholder ])

updateLine(s) ==
  LET r == RemoveLine(s)
  IN  IF Len(r.pickedPoints) < 2 THEN r
      ELSE LET line == Obj("line", FreshId(r), r.pickedPoints)
               d == distanceTo(r.pickedPoints[1], r.pickedPoints[2])
           IN  [ r EXCEPT !.pickedLine = << line >>,
                          !.sceneChildren = @ \cup { line },
                          !.lastDistance = d,
                          !.measureText = DistanceText(2, toFixed(d, 2)) ]

\* The objects the pointer version tests the ray against.
pointerTargets(s) == IF s.modelRoot THEN { Model } ELSE s.sceneChildren

\* The picked point is pushed; a third point clears and is pushed again.
pushPickedLate(s, p) ==
  LET s1 == [ s EXCEPT !.pickedPoints = Append(@, p) ]
  IN  IF Len(s1.pickedPoints) > 3
      THEN [ clearMeasure(s1) EXCEPT !.pickedPoints = Append(@, p) ]
      ELSE s1
pushPicked(s, p) ==
  LET s1 == [ s EXCEPT !.pickedPoints = Append(@, p) ]
  IN  IF Len(s1.pickedPoints) > 2
      THEN [ clearMeasure(s1) EXCEPT !.pickedPoints = Append(@, p) ]
      ELSE s1

onPointerDownUnguarded(s, ray) ==
  LET hits == intersectObjects(pointerTargets(s), ray)
  IN  IF hits = << >> THEN s
      ELSE LET s2 == pushPicked(s, hits[1])
           IN  IF Len(s2.pickedPoints) = 2 THEN updateLine(s2) ELSE s2
onPointerDown(s, ray) ==
  IF ~s.isMeasuring THEN s
  ELSE LET hits == intersectObjects(pointerTargets(s), ray)
       IN  IF hits = << >> THEN s
           ELSE LET s2 == pushPicked(s, hits[1])
                IN  IF Len(s2.pickedPoints) = 2 THEN updateLine(s2) ELSE s2

\* btnMeasure's click handler of the pointer version.
toggleMeasuringClearing(s) ==
  clearMeasure([ s EXCEPT !.isMeasuring = ~@, !.btnActive = ~s.isMeasuring ])
toggleMeasuring(s) ==
  [ s EXCEPT !.isMeasuring = ~@, !.btnActive = ~s.isMeasuring ]

\* The OBJ loader's success callback of the pointer version.
objLoadedPointer(s) ==
  [ s EXCEPT !.modelRoot = TRUE, !.sceneChildren = @ \cup { Model } ]

\* ------------------------------------------- the canvas version (423-829)
resetMeasureState(s) ==
  [ s EXCEPT !.isMeasuring = FALSE, !.btnActive = FALSE,
             !.measurePoints = << >> ]

Range(seq) == { seq[i] : i \in 1..Len(seq) }

\* btnMeasure's click handler of the canvas version.
btnMeasureClickClearing(s) ==
  LET t == [ s EXCEPT !.isMeasuring = ~@ ]
  IN  IF t.isMeasuring
      THEN [ t EXCEPT !.btnActive = TRUE, !.measurePoints = << >>,
                      !.sceneChildren = @ \ Range(s.measureObjects),
                      !.measureObjects = << >>,
                      !.measureText = Placeholder ]
      ELSE resetMeasureState(t)
btnMeasureClick(s) ==
  LET t == [ s EXCEPT !.isMeasuring = ~@ ]
  IN  IF t.isMeasuring
      THEN [ t EXCEPT !.btnActive = TRUE, !.measurePoints = << >> ]
      ELSE resetMeasureState(t)

\* The keydown listener of the window.
Keys == { "Escape", "Enter" }
onKeydown(s, key) ==
  IF key = "Escape" /\ s.isMeasuring THEN resetMeasureState(s) ELSE s

\* btnClear's click handler of the canvas version.
btnClearClickKeepPoints(s) ==
  [ s EXCEPT !.sceneChildren = @ \ Range(s.measureObjects),
             !.measureObjects = << >>,
             !.measureText = Placeholder ]
btnClearClick(s) ==
  [ s EXCEPT !.sceneChildren = @ \ Range(s.measureObjects),
             !.measureObjects = << >>,
             !.measurePoints = << >>,
             !.measureText = Placeholder ]

addMeasurePointUntrackedLine(s, point) ==
  LET sphere == Obj("sphere", FreshId(s), << point >>)
      s1 == [ s EXCEPT !.measurePoints = Append(@, point),
                       !.sceneChildren = @ \cup { sphere },
                       !.measureObjects = Append(@, sphere) ]
  IN  IF Len(s1.measurePoints) = 2
      THEN LET p1 == s1.measurePoints[1]
               p2 == s1.measurePoints[2]
               line == Obj("line", FreshId(s1), << p1, p2 >>)
               dist == distanceTo(p1, p2)
           IN  [ s1 EXCEPT !.sceneChildren = @ \cup { line },
                           !.measureText = DistanceText(3, toFixed(dist, 3)),
                           !.measurePoints = << >> ]
      ELSE s1
addMeasurePoint(s, point) ==
  LET sphere == Obj("sphere", FreshId(s), << point >>)
      s1 == [ s EXCEPT !.measurePoints = Append(@, point),
                       !.sceneChildren = @ \cup { sphere },
                       !.measureObjects = Append(@, sphere) ]
  IN  IF Len(s1.measurePoints) = 2
      THEN LET p1 == s1.measurePoints[1]
               p2 == s1.measurePoints[2]
               line == Obj("line", FreshId(s1), << p1, p2 >>)
               dist == distanceTo(p1, p2)
           IN  [ s1 EXCEPT !.sceneChildren = @ \cup { line },
                           !.measureObjects = Append(@, line),
                           !.measureText = DistanceText(3, toFixed(dist, 3)),
                           !.measurePoints = << >> ]
      ELSE s1

onCanvasClick(s, ray) ==
  IF ~s.isMeasuring \/ ~s.loadedModel THEN s
  ELSE LET intersects == intersectObjects({ Model }, ray)
       IN  IF Len(intersects) > 0 THEN addMeasurePoint(s, intersects[1])
           ELSE s

\* The OBJ loader's success callback of the canvas version.
objLoadedCanvas(s) ==
  [ s EXCEPT !.sceneChildren = @ \cup { Model }, !.loadedModel = TRUE ]

\* --------------------------------------------------------------- actions
Apply(t) ==
  /\ modelRoot' = t.modelRoot
  /\ loadedModel' = t.loadedModel
  /\ sceneChildren' = t.sceneChildren
  /\ isMeasuring' = t.isMeasuring
  /\ btnActive' = t.btnActive
  /\ pickedPoints' = t.pickedPoints
  /\ pickedLine' = t.pickedLine
  /\ lastDistance' = t.lastDistance
  /\ measurePoints' = t.measurePoints
  /\ measureObjects' = t.measureObjects
  /\ measureText' = t.measureText

Event(type, ray) == [ type |-> type, ray |-> ray ]

\* The measurement visuals on display, and whether they show a completed
\* measurement: two points joined by a line.
Spheres == { o \in sceneChildren : o.kind = "sphere" }
Lines == { o \in sceneChildren : o.kind = "line" }
Visuals == Spheres \cup Lines
CompleteShown ==
  IF variant = "pointer"
  THEN Len(pickedPoints) = 2
  ELSE /\ measurePoints = << >>
       /\ measureObjects # << >>
       /\ measureObjects[Len(measureObjects)].kind = "line"

\* A pointer-down the running version records: armed, and the ray meets an
\* object the version tests it against.
Recorded(ray) ==
  /\ isMeasuring
  /\ IF variant = "pointer"
     THEN intersectObjects(pointerTargets(State), ray) # << >>
     ELSE loadedModel /\ ray.model # << >>

\* History: "kept" from the moment armed state is left with a completed
\* measurement on display, "picked" once a pointer-down is recorded after
\* that, "no" after a clear command.
LeftOnLeave(t) ==
  IF isMeasuring /\ ~t.isMeasuring /\ CompleteShown THEN "kept" ELSE left

LoadSuccess ==
  /\ loadState = "loading"
  /\ loadState' = "loaded"
  /\ Apply(IF variant = "pointer" THEN objLoadedPointer(State)
                                  ELSE objLoadedCanvas(State))
  /\ lastEvent' = Event("load", NoRay)
  /\ UNCHANGED << variant, left, everArmed >>

LoadError ==
  /\ loadState = "loading"
  /\ loadState' = "failed"
  /\ lastEvent' = Event("loaderror", NoRay)
  /\ UNCHANGED << variant, modelRoot, loadedModel, sceneChildren, isMeasuring,
                  btnActive, pickedPoints, pickedLine, lastDistance,
                  measurePoints, measureObjects, measureText, left,
                  everArmed >>

Toggle ==
  LET t == IF variant = "pointer" THEN toggleMeasuring(State)
                                  ELSE btnMeasureClick(State)
  IN  /\ Apply(t)
      /\ lastEvent' = Event("toggle", NoRay)
      /\ left' = LeftOnLeave(t)
      /\ everArmed' = (everArmed \/ t.isMeasuring)
      /\ UNCHANGED << variant, loadState >>

\* Only the canvas version listens to the keyboard.
Keydown(key) ==
  /\ variant = "canvas"
  /\ LET t == onKeydown(State, key)
     IN  /\ Apply(t)
         /\ left' = LeftOnLeave(t)
  /\ lastEvent' = Event(IF key = "Escape" THEN "escape" ELSE "key", NoRay)
  /\ UNCHANGED << variant, loadState, everArmed >>

Clear ==
  /\ Apply(IF variant = "pointer" THEN clearMeasure(State)
                                  ELSE btnClearClick(State))
  /\ lastEvent' = Event("clear", NoRay)
  /\ left' = "no"
  /\ UNCHANGED << variant, loadState, everArmed >>

\* The pointerdown listener of the canvas element.  The guard bounds the
\* number of visuals that exist at once (the canvas version never removes one
\* but on the clear command).
PointerDown(ray) ==
  LET t == IF variant = "pointer" THEN onPointerDown(State, ray)
                                  ELSE onCanvasClick(State, ray)
  IN  /\ Cardinality({ o \in t.sceneChildren : IsVisual(o) }) <= MaxObjects
      /\ Apply(t)
      /\ lastEvent' = Event("pointerdown", ray)
      /\ left' = IF left = "kept" /\ Recorded(ray) THEN "picked" ELSE left
      /\ UNCHANGED << variant, loadState, everArmed >>

\* The state after DOMContentLoaded: the load is under way, nothing is picked.
\* #measureText starts with the placeholder the clear command writes (its
\* markup is not part of app.js).  The camera, the orbit controls and
\* #statusText are not read by the measurement and are left out.
Init ==
  /\ variant \in { "pointer", "canvas" }
  /\ loadState = "loading"
  /\ modelRoot = FALSE
  /\ loadedModel = FALSE
  /\ sceneChildren = { Grid }
  /\ isMeasuring = FALSE
  /\ btnActive = FALSE
  /\ pickedPoints = << >>
  /\ pickedLine = << >>
  /\ lastDistance = 0
  /\ measurePoints = << >>
  /\ measureObjects = << >>
  /\ measureText = Placeholder
  /\ lastEvent = Event("init", NoRay)
  /\ left = "no"
  /\ everArmed = FALSE

Next ==
  \/ LoadSuccess
  \/ LoadError
  \/ Toggle
  \/ \E key \in Keys : Keydown(key)
  \/ Clear
  \/ \E ray \in Rays : PointerDown(ray)

Spec == Init /\ [][Next]_vars

\* ------------------------------------------------------------ the claims
\* The points of the running measurement, in either version.
SessionPoints == IF variant = "pointer" THEN pickedPoints ELSE measurePoints

\* What a measurement shows: its visuals in the scene and the text.
Shown == << Visuals, measureText >>

\* C1: when a measurement is complete (two point markers and one segment on
\* display) and the mode is armed, the next recorded pick removes both markers
\* and the segment and leaves exactly the new point with exactly one marker.
C1_ThirdPickRestarts ==
  [][ ( /\ isMeasuring
        /\ CompleteShown
        /\ Cardinality(Spheres) = 2
        /\ Cardinality(Lines) = 1
        /\ lastEvent'.type = "pointerdown"
        /\ Recorded(lastEvent'.ray) )
      => ( /\ SessionPoints' = << lastEvent'.ray.model[1] >>
           /\ Lines' = {}
           /\ Cardinality(Spheres') = 1
           /\ \A o \in Spheres' : o.pts = SessionPoints' ) ]_vars

\* C2: the visuals match the number of points of the running measurement
\* (canvas version): 0 points, nothing; 1 point, one marker and no segment;
\* 2 points, two markers and one segment.
C2_MarkerCount ==
  variant = "canvas" =>
    /\ Len(measurePoints) = 0 => (Spheres = {} /\ Lines = {})
    /\ Len(measurePoints) = 1 => (Cardinality(Spheres) = 1 /\ Lines = {})
    /\ Len(measurePoints) = 2
         => (Cardinality(Spheres) = 2 /\ Cardinality(Lines) = 1)

\* C3: after every handler the list of picked points holds at most 2 points,
\* in both versions.
C3_AtMostTwoPoints == Len(pickedPoints) <= 2 /\ Len(measurePoints) <= 2

\* C3's case: a pointer-down has filled the list to its two points.
C3_Witness ==
  /\ lastEvent.type = "pointerdown"
  /\ Len(pickedPoints) = 2
  /\ pickedLine # << >>

\* C4: a pointer-down delivered while disarmed changes nothing: not the
\* points, the visuals in the scene, the text or the armed flag; and while the
\* mode has never been armed there are no points and no visuals.
C4_DisarmedPickIsNoOp ==
  /\ [](~everArmed => (SessionPoints = << >> /\ Visuals = {}))
  /\ [][ (lastEvent'.type = "pointerdown" /\ ~isMeasuring)
         => UNCHANGED << pickedPoints, pickedLine, lastDistance, measurePoints,
                         measureObjects, sceneChildren, measureText,
                         isMeasuring >> ]_vars

\* C4's case: a pointer-down that hits the loaded model was served while
\* disarmed, with a measurement on display.
C4_Witness ==
  /\ lastEvent.type = "pointerdown"
  /\ lastEvent.ray.model # << >>
  /\ loadState = "loaded"
  /\ ~isMeasuring
  /\ everArmed
  /\ Lines # {}

\* C5: a pointer-down while armed whose ray does not meet the model (the
\* model is absent, or the ray misses it) changes nothing, whatever else the
\* ray meets.
C5_MissIsNoOp ==
  [][ ( /\ lastEvent'.type = "pointerdown"
        /\ isMeasuring
        /\ (Model \notin sceneChildren \/ lastEvent'.ray.model = << >>) )
      => UNCHANGED << pickedPoints, pickedLine, lastDistance, measurePoints,
                      measureObjects, sceneChildren, measureText >> ]_vars

\* n / 10^digits is nearest to the straight-line distance between a and b, in
\* metres (coordinates are half metres): |n - d * 10^digits| <= 1/2.
NearestTo(n, a, b, digits) ==
  LET dSq == (a[1] - b[1]) * (a[1] - b[1]) + (a[2] - b[2]) * (a[2] - b[2])
             + (a[3] - b[3]) * (a[3] - b[3])
      x == dSq * Pow100(digits)
  IN  /\ n >= 0
      /\ (n > 0 => (2 * n - 1) * (2 * n - 1) <= x)
      /\ x < (2 * n + 1) * (2 * n + 1)

C7_LeaveDiscardsDangling ==
  [][ ( /\ variant = "canvas"
        /\ isMeasuring
        /\ ~isMeasuring'
        /\ Len(measurePoints) = 1 )
      => ( /\ measurePoints' = << >>
           /\ measureObjects[Len(measureObjects)] \notin sceneChildren' ) ]_vars

\* C8 as stated: once armed state is left with a completed measurement, its
\* markers, segment and text stay as they were until a clear command (stated
\* for the runs in which the model is loaded).
C8_KeptUntilClear ==
  [][ (left' # "no" /\ loadState = "loaded") => Shown' = Shown ]_vars

\* C8 as amended: they stay as they were until a clear command or until a
\* further pointer-down is recorded.
C8_KeptUntilClearOrPick ==
  [][ left' = "kept" => Shown' = Shown ]_vars

\* C8's case: armed state was left by Escape with two markers, a segment and
\* a distance on display.
C8_Witness ==
  /\ left = "kept"
  /\ lastEvent.type = "escape"
  /\ ~isMeasuring
  /\ Cardinality(Spheres) = 2
  /\ Cardinality(Lines) = 1
  /\ ~measureText.dash

\* C9 as stated: right after a toggle from disarmed to armed there are no
\* points, no visuals of an earlier measurement and the placeholder text
\* (stated for the toggles that find a completed measurement of the loaded
\* model on display).
C9_ArmingClears ==
  [][ (~isMeasuring /\ isMeasuring' /\ CompleteShown /\ loadState = "loaded")
      => ( /\ SessionPoints' = << >>
           /\ Visuals' = {}
           /\ measureText' = Placeholder ) ]_vars

\* C9 as amended: a toggle from disarmed to armed leaves the visuals and the
\* text as they were; the canvas version then holds no picked point, the
\* pointer version the points it held.
C9_ArmingKeepsShown ==
  [][ (~isMeasuring /\ isMeasuring')
      => ( /\ Shown' = Shown
           /\ sceneChildren' = sceneChildren
           /\ measureObjects' = measureObjects
           /\ measurePoints' = << >>
           /\ pickedPoints' = pickedPoints
           /\ pickedLine' = pickedLine ) ]_vars

\* C9's case: the mode was armed again with an earlier measurement on display.
C9_Witness ==
  /\ lastEvent.type = "toggle"
  /\ isMeasuring
  /\ Lines # {}
  /\ ~measureText.dash

\* C10: the clear command yields no points, no visuals and the placeholder
\* text, and leaves the armed flag alone; on an empty session it changes
\* nothing; the next recorded pick after it is a first point.
C10_ClearEmpties ==
  /\ [][ lastEvent'.type = "clear"
         => ( /\ SessionPoints' = << >>
              /\ Visuals' = {}
              /\ measureObjects' = << >>
              /\ pickedLine' = << >>
              /\ measureText' = Placeholder
              /\ isMeasuring' = isMeasuring
              /\ ( (SessionPoints = << >> /\ Visuals = {}
                    /\ measureText = Placeholder)
                   => State' = State ) ) ]_vars
  /\ [][ ( /\ lastEvent.type = "clear"
           /\ lastEvent'.type = "pointerdown"
           /\ Recorded(lastEvent'.ray) )
         => Len(SessionPoints') = 1 ]_vars

\* C10's case: a clear command was served while armed, and the session is
\* Armed-Empty with the model loaded.
C10_Witness ==
  /\ lastEvent.type = "clear"
  /\ isMeasuring
  /\ loadState = "loaded"
  /\ left = "no"

\* C11: a recorded pick made while armed with 0 points leaves exactly one
\* picked point, exactly one marker in the scene, no segment and the
\* placeholder text (canvas version).
C11_FirstPickFromEmpty ==
  [][ ( /\ variant = "canvas"
        /\ isMeasuring
        /\ measurePoints = << >>
        /\ lastEvent'.type = "pointerdown"
        /\ Recorded(lastEvent'.ray) )
      => ( /\ measurePoints' = << lastEvent'.ray.model[1] >>
           /\ Cardinality(Spheres') = 1
           /\ Lines' = {}
           /\ measureText' = Placeholder ) ]_vars

\* C12: in the canvas version the spheres and segments in the scene are
\* exactly the objects measureObjects tracks, each once; no handler but the
\* clear command removes one; and the clear command leaves none.
C12_VisualsTracked ==
  /\ [](variant = "canvas"
        => ( /\ Visuals = Range(measureObjects)
             /\ Cardinality(Visuals) = Len(measureObjects) ))
  /\ [][ variant = "canvas"
         => IF lastEvent'.type = "clear"
            THEN Visuals' = {} /\ measureObjects' = << >>
            ELSE /\ Visuals \subseteq Visuals'
                 /\ Len(measureObjects) <= Len(measureObjects')
                 /\ \A i \in 1..Len(measureObjects) :
                      measureObjects'[i] = measureObjects[i] ]_vars

\* C12's case: visuals of more than one measurement have accumulated: a
\* completed measurement and the first marker of the next one.
C12_Witness ==
  /\ variant = "canvas"
  /\ lastEvent.type = "pointerdown"
  /\ Len(measurePoints) = 1
  /\ Cardinality(Spheres) = 3
  /\ Cardinality(Lines) = 1
  /\ Len(measureObjects) = 4

\* C13: in the pointer version, after every handler, pickedLine holds a line
\* that is in the scene exactly when two points are picked; the scene holds
\* no other line; lastDistance is 0 with fewer than two points and the
\* distance between the two points (kept as its square) with two.
C13_LineIffTwoPoints ==
  variant = "pointer" =>
    /\ (pickedLine # << >>) <=> (Len(pickedPoints) = 2)
    /\ Lines = Range(pickedLine)
    /\ Cardinality(Lines) <= 1
    /\ Len(pickedPoints) < 2 => lastDistance = 0
    /\ Len(pickedPoints) = 2 =>
         LET a == pickedPoints[1]
             b == pickedPoints[2]
         IN  /\ lastDistance = (a[1] - b[1]) * (a[1] - b[1])
                               + (a[2] - b[2]) * (a[2] - b[2])
                               + (a[3] - b[3]) * (a[3] - b[3])
             /\ pickedLine[1].pts = << a, b >>

\* C13's case: a new measurement, (0,0,0) m to (6,0,1) m, was completed on
\* the loaded model after the mode had been left with an earlier one.
C13_Witness ==
  /\ variant = "pointer"
  /\ loadState = "loaded"
  /\ left = "picked"
  /\ pickedPoints = << Point(0), Point(2) >>
  /\ pickedLine # << >>
  /\ lastDistance = 148

====
